---- MODULE Spec2Model ----
(***************************************************************************)
(* Model of src/sys/kernel/mod.rs: the kernel Version parser and its       *)
(* ordering, and the SemaphoreLimits parser.                               *)
(*                                                                         *)
(* A &str is a sequence of one-character strings.  A Result is a record    *)
(* [tag |-> "Ok", val |-> v] or [tag |-> "Err", val |-> message]; an       *)
(* Option is [some |-> TRUE, v |-> x] or [some |-> FALSE].                 *)
(* A u8 is an integer 0..255.  A u64 is its sequence of decimal digits     *)
(* (integers 0..9, most significant first, no leading zero, zero = <<0>>), *)
(* so that the whole 64-bit range is representable.                        *)
(***************************************************************************)
EXTENDS Integers, Sequences, FiniteSets, TLC

VARIABLES pc, fn, s, parts, self, other, third, res

vars == <<pc, fn, s, parts, self, other, third, res>>

(***************************** bounds **************************************)

\* most dot-separated components of a generated kernel release text
MaxComps == 4

\* most whitespace-separated tokens of a generated sem line
MaxTokens == 5

(************************ Result and Option ********************************)

Ok(v) == [tag |-> "Ok", val |-> v]

Err(e) == [tag |-> "Err", val |-> e]

IsOk(r) == r.tag = "Ok"

IsErr(r) == r.tag = "Err"

Some(x) == [some |-> TRUE, v |-> x]

None == [some |-> FALSE]

NoResult == [tag |-> "None"]

\* Option::ok_or
ok_or(opt, e) == IF opt.some THEN Ok(opt.v) ELSE Err(e)

(***************************** characters **********************************)

AsciiDigits == {"0", "1", "2", "3", "4", "5", "6", "7", "8", "9"}

\* char::to_digit(10)
to_digit(c) ==
    CASE c = "0" -> Some(0) [] c = "1" -> Some(1) [] c = "2" -> Some(2)
      [] c = "3" -> Some(3) [] c = "4" -> Some(4) [] c = "5" -> Some(5)
      [] c = "6" -> Some(6) [] c = "7" -> Some(7) [] c = "8" -> Some(8)
      [] c = "9" -> Some(9) [] OTHER -> None

(************************** str operations *********************************)

\* A char pattern (a char, or a closure over chars) as the set it accepts or
\* the set it rejects
Accepts(chars) == [neg |-> FALSE, chars |-> chars]

Rejects(chars) == [neg |-> TRUE, chars |-> chars]

matches(pat, c) == (c \in pat.chars) # pat.neg

\* the closure with the test for '.' forgotten: |c: char| !c.is_ascii_digit()
NotDigit == Rejects(AsciiDigits)

\* the closure |c: char| c != '.' && !c.is_ascii_digit()
NotDotNorDigit == Rejects({"."} \cup AsciiDigits)

\* str::find: the 0-based index of the first char the pattern matches
find(str, pat) ==
    LET hits == {i \in 1..Len(str) : matches(pat, str[i])}
    IN  IF hits = {} THEN None
        ELSE Some((CHOOSE i \in hits : \A j \in hits : i <= j) - 1)

\* str::split_at: the text before byte index mid, and the text from it
split_at(str, mid) == <<SubSeq(str, 1, mid), SubSeq(str, mid + 1, Len(str))>>

\* str::splitn(3, ch) in place of str::split: everything after the second
\* separator stays in the third piece
splitn3(str, ch) ==
    LET hit1 == find(str, Accepts({ch}))
    IN  IF ~ hit1.some THEN <<str>>
        ELSE LET rest == SubSeq(str, hit1.v + 2, Len(str))
                 hit2 == find(rest, Accepts({ch}))
             IN  IF ~ hit2.some THEN <<SubSeq(str, 1, hit1.v), rest>>
                 ELSE <<SubSeq(str, 1, hit1.v), SubSeq(rest, 1, hit2.v),
                        SubSeq(rest, hit2.v + 2, Len(rest))>>

RECURSIVE split(_, _)
\* str::split on a char, collected: always at least one (maybe empty) piece
split(str, ch) ==
    LET hit == find(str, Accepts({ch}))
    IN  IF ~ hit.some THEN <<str>>
        ELSE <<SubSeq(str, 1, hit.v)>>
               \o split(SubSeq(str, hit.v + 2, Len(str)), ch)

RECURSIVE split_spaces(_)
\* splitting on ' ' alone: a tab does not separate
split_spaces(str) ==
    LET start == find(str, Rejects({" "}))
    IN  IF ~ start.some THEN <<>>
        ELSE LET rest == SubSeq(str, start.v + 1, Len(str))
                 stop == find(rest, Accepts({" "}))
             IN  IF ~ stop.some THEN <<rest>>
                 ELSE <<SubSeq(rest, 1, stop.v)>>
                        \o split_spaces(SubSeq(rest, stop.v + 1, Len(rest)))

AsciiWhitespace == {" ", "\t", "\n", "\f", "\r"}

RECURSIVE split_ascii_whitespace(_)
\* str::split_ascii_whitespace, collected: the non-empty runs of non-whitespace
split_ascii_whitespace(str) ==
    LET start == find(str, Rejects(AsciiWhitespace))
    IN  IF ~ start.some THEN <<>>
        ELSE LET rest == SubSeq(str, start.v + 1, Len(str))
                 stop == find(rest, Accepts(AsciiWhitespace))
             IN  IF ~ stop.some THEN <<rest>>
                 ELSE <<SubSeq(rest, 1, stop.v)>>
                        \o split_ascii_whitespace(
                               SubSeq(rest, stop.v + 1, Len(rest)))

\* an iterator that skips empty items, as after .filter(|p| !p.is_empty())
next_nonempty(items, n) ==
    LET kept == SelectSeq(items, LAMBDA p : p # <<>>)
    IN  IF n <= Len(kept) THEN Some(kept[n]) ELSE None

\* Iterator::next called for the n-th time on a fresh iterator over items
next(items, n) == IF n <= Len(items) THEN Some(items[n]) ELSE None

(***************************** u8 parsing **********************************)

U8MAX == 255

RECURSIVE u8_digits_wrapping(_, _)
\* the digit loop with wrapping arithmetic in place of the checked one
u8_digits_wrapping(digits, result) ==
    IF digits = <<>> THEN Ok(result)
    ELSE LET x == to_digit(Head(digits))
         IN  IF ~ x.some THEN Err("InvalidDigit")
             ELSE u8_digits_wrapping(Tail(digits),
                                     (result * 10 + x.v) % (U8MAX + 1))

RECURSIVE u8_digits(_, _)
\* the checked digit loop of from_str_radix for u8
u8_digits(digits, result) ==
    IF digits = <<>> THEN Ok(result)
    ELSE LET x == to_digit(Head(digits))
         IN  IF ~ x.some THEN Err("InvalidDigit")
             ELSE IF result * 10 > U8MAX THEN Err("PosOverflow")
             ELSE IF result * 10 + x.v > U8MAX THEN Err("PosOverflow")
             ELSE u8_digits(Tail(digits), result * 10 + x.v)

\* str::parse::<u8>
u8_parse(src) ==
    IF src = <<>> THEN Err("Empty")
    ELSE IF Len(src) = 1 /\ src[1] \in {"+", "-"} THEN Err("InvalidDigit")
    ELSE u8_digits(IF src[1] = "+" THEN Tail(src) ELSE src, 0)

(******************************* Version ***********************************)

\* Version::new
Version_new(major, minor, patch) ==
    [major |-> major, minor |-> minor, patch |-> patch]

\* Version::from_str
Version_from_str(str) ==
    LET pos == find(str, NotDotNorDigit)
        kernel == IF pos.some THEN split_at(str, pos.v)[1] ELSE str
        kernel_split == split(kernel, ".")
        major == ok_or(next(kernel_split, 1), "Missing major version component")
        minor == ok_or(next(kernel_split, 2), "Missing minor version component")
        patch == ok_or(next(kernel_split, 3), "Missing patch version component")
    IN  IF IsErr(major) THEN major
        ELSE IF IsErr(minor) THEN minor
        ELSE IF IsErr(patch) THEN patch
        ELSE LET major2 == u8_parse(major.val)
                 minor2 == u8_parse(minor.val)
                 patch2 == u8_parse(patch.val)
             IN  IF IsErr(major2) THEN Err("Failed to parse major version")
                 ELSE IF IsErr(minor2) THEN Err("Failed to parse minor version")
                 ELSE IF IsErr(patch2) THEN Err("Failed to parse patch version")
                 ELSE Ok([major |-> major2.val, minor |-> minor2.val,
                          patch |-> patch2.val])

\* u8::cmp
u8_cmp(a, b) == IF a < b THEN "Less" ELSE IF a = b THEN "Equal" ELSE "Greater"

\* the comparison with minor looked at before major
cmp_minor_first(x, y) ==
    LET byMinor == u8_cmp(x.minor, y.minor)
    IN  IF byMinor = "Equal"
        THEN LET byMajor == u8_cmp(x.major, y.major)
             IN  IF byMajor = "Equal" THEN u8_cmp(x.patch, y.patch)
                 ELSE byMajor
        ELSE byMinor

\* <Version as Ord>::cmp
cmp(x, y) ==
    LET byMajor == u8_cmp(x.major, y.major)
    IN  IF byMajor = "Equal"
        THEN LET byMinor == u8_cmp(x.minor, y.minor)
             IN  IF byMinor = "Equal" THEN u8_cmp(x.patch, y.patch)
                 ELSE byMinor
        ELSE byMajor

\* <Version as PartialOrd>::partial_cmp
partial_cmp(x, y) == Some(cmp(x, y))

\* <Version as PartialEq>::eq, derived: field by field
eq(x, y) == x.major = y.major /\ x.minor = y.minor /\ x.patch = y.patch

(***************************** u64 parsing *********************************)

\* u64::MAX = 18446744073709551615, as digits
U64_MAX == <<1, 8, 4, 4, 6, 7, 4, 4, 0, 7, 3, 7, 0, 9, 5, 5, 1, 6, 1, 5>>

\* a > b for two u64 digit sequences (no leading zeros)
u64_gt(a, b) ==
    \/ Len(a) > Len(b)
    \/ /\ Len(a) = Len(b)
       /\ \E i \in 1..Len(a) :
              /\ a[i] > b[i]
              /\ \A j \in 1..(i - 1) : a[j] = b[j]

\* u64::checked_mul(10): None on overflow
u64_checked_mul10(v) ==
    LET m == IF v = <<0>> THEN <<0>> ELSE Append(v, 0)
    IN  IF u64_gt(m, U64_MAX) THEN None ELSE Some(m)

\* u64::checked_add of a digit x to a multiple of ten: None on overflow
u64_checked_add(v, x) ==
    LET a == [v EXCEPT ![Len(v)] = x]
    IN  IF u64_gt(a, U64_MAX) THEN None ELSE Some(a)

RECURSIVE u64_digits(_, _)
\* the checked digit loop of from_str_radix for u64
u64_digits(digits, result) ==
    IF digits = <<>> THEN Ok(result)
    ELSE LET x == to_digit(Head(digits))
             mul == u64_checked_mul10(result)
         IN  IF ~ x.some THEN Err("InvalidDigit")
             ELSE IF ~ mul.some THEN Err("PosOverflow")
             ELSE LET add == u64_checked_add(mul.v, x.v)
                  IN  IF ~ add.some THEN Err("PosOverflow")
                      ELSE u64_digits(Tail(digits), add.v)

\* str::parse::<u64>
u64_parse(src) ==
    IF src = <<>> THEN Err("Empty")
    ELSE IF Len(src) = 1 /\ src[1] \in {"+", "-"} THEN Err("InvalidDigit")
    ELSE u64_digits(IF src[1] = "+" THEN Tail(src) ELSE src, <<0>>)

(*************************** SemaphoreLimits *******************************)

\* each field parsed as soon as it is fetched, before the next is looked for
SemaphoreLimits_from_str_interleaved(str) ==
    LET tokens == split_ascii_whitespace(str)
        names == <<"SEMMSL", "SEMMNS", "SEMOPM", "SEMMNI">>
        Bad(k) == k > Len(tokens) \/ IsErr(u64_parse(tokens[k]))
        bad == {k \in 1..4 : Bad(k)}
        first == CHOOSE k \in bad : \A j \in bad : k <= j
    IN  IF bad = {}
        THEN Ok([semmsl |-> u64_parse(tokens[1]).val,
                 semmns |-> u64_parse(tokens[2]).val,
                 semopm |-> u64_parse(tokens[3]).val,
                 semmni |-> u64_parse(tokens[4]).val])
        ELSE IF first > Len(tokens)
        THEN Err(IF first = 1 THEN "Missing SEMMSL"
                 ELSE IF first = 2 THEN "Missing SEMMNS"
                 ELSE IF first = 3 THEN "Missing SEMOPM"
                 ELSE "Missing SEMMNI")
        ELSE Err(IF first = 1 THEN "Failed to parse SEMMSL"
                 ELSE IF first = 2 THEN "Failed to parse SEMMNS"
                 ELSE IF first = 3 THEN "Failed to parse SEMOPM"
                 ELSE "Failed to parse SEMMNI")

\* the message of the first parse copied to the second and never edited
SemaphoreLimits_from_str_copied_message(str) ==
    LET tokens == split_ascii_whitespace(str)
    IN  IF Len(tokens) < 4
        THEN Err(IF Len(tokens) = 0 THEN "Missing SEMMSL"
                 ELSE IF Len(tokens) = 1 THEN "Missing SEMMNS"
                 ELSE IF Len(tokens) = 2 THEN "Missing SEMOPM"
                 ELSE "Missing SEMMNI")
        ELSE LET semmsl2 == u64_parse(tokens[1])
                 semmns2 == u64_parse(tokens[2])
                 semopm2 == u64_parse(tokens[3])
                 semmni2 == u64_parse(tokens[4])
             IN  IF IsErr(semmsl2) THEN Err("Failed to parse SEMMSL")
                 ELSE IF IsErr(semmns2) THEN Err("Failed to parse SEMMSL")
                 ELSE IF IsErr(semopm2) THEN Err("Failed to parse SEMOPM")
                 ELSE IF IsErr(semmni2) THEN Err("Failed to parse SEMMNI")
                 ELSE Ok([semmsl |-> semmsl2.val, semmns |-> semmns2.val,
                          semopm |-> semopm2.val, semmni |-> semmni2.val])

\* a line with a fifth token rejected
SemaphoreLimits_from_str_strict(str) ==
    LET tokens == split_ascii_whitespace(str)
    IN  IF Len(tokens) > 4 THEN Err("Unexpected field")
        ELSE IF Len(tokens) < 4
        THEN Err(IF Len(tokens) = 0 THEN "Missing SEMMSL"
                 ELSE IF Len(tokens) = 1 THEN "Missing SEMMNS"
                 ELSE IF Len(tokens) = 2 THEN "Missing SEMOPM"
                 ELSE "Missing SEMMNI")
        ELSE LET semmsl2 == u64_parse(tokens[1])
                 semmns2 == u64_parse(tokens[2])
                 semopm2 == u64_parse(tokens[3])
                 semmni2 == u64_parse(tokens[4])
             IN  IF IsErr(semmsl2) THEN Err("Failed to parse SEMMSL")
                 ELSE IF IsErr(semmns2) THEN Err("Failed to parse SEMMNS")
                 ELSE IF IsErr(semopm2) THEN Err("Failed to parse SEMOPM")
                 ELSE IF IsErr(semmni2) THEN Err("Failed to parse SEMMNI")
                 ELSE Ok([semmsl |-> semmsl2.val, semmns |-> semmns2.val,
                          semopm |-> semopm2.val, semmni |-> semmni2.val])

\* SemaphoreLimits::from_str
SemaphoreLimits_from_str(str) ==
    LET tokens == split_ascii_whitespace(str)
        semmsl == ok_or(next(tokens, 1), "Missing SEMMSL")
        semmns == ok_or(next(tokens, 2), "Missing SEMMNS")
        semopm == ok_or(next(tokens, 3), "Missing SEMOPM")
        semmni == ok_or(next(tokens, 4), "Missing SEMMNI")
    IN  IF IsErr(semmsl) THEN semmsl
        ELSE IF IsErr(semmns) THEN semmns
        ELSE IF IsErr(semopm) THEN semopm
        ELSE IF IsErr(semmni) THEN semmni
        ELSE LET semmsl2 == u64_parse(semmsl.val)
                 semmns2 == u64_parse(semmns.val)
                 semopm2 == u64_parse(semopm.val)
                 semmni2 == u64_parse(semmni.val)
             IN  IF IsErr(semmsl2) THEN Err("Failed to parse SEMMSL")
                 ELSE IF IsErr(semmns2) THEN Err("Failed to parse SEMMNS")
                 ELSE IF IsErr(semopm2) THEN Err("Failed to parse SEMOPM")
                 ELSE IF IsErr(semmni2) THEN Err("Failed to parse SEMMNI")
                 ELSE Ok([semmsl |-> semmsl2.val, semmns |-> semmns2.val,
                          semopm |-> semopm2.val, semmni |-> semmni2.val])

(******************************* inputs ************************************)

\* all sequences over S with lo..hi elements
SeqsOf(S, lo, hi) == UNION {[1..n -> S] : n \in lo..hi}

RECURSIVE Join(_, _)
\* the pieces in order, with sep between neighbours
Join(pieces, sep) ==
    IF pieces = <<>> THEN <<>>
    ELSE IF Len(pieces) = 1 THEN pieces[1]
    ELSE pieces[1] \o sep \o Join(Tail(pieces), sep)

\* dot-separated components of a release text: empty, plain, zero-padded,
\* the largest u8 and the first value past it
CompSet ==
    { <<>>, <<"0">>, <<"3">>, <<"1", "6">>, <<"0", "0", "7">>,
      <<"2", "5", "5">>, <<"2", "5", "6">>, <<"0", "2", "5", "5">> }

\* what follows the numeric prefix: nothing, or text that starts with a char
\* that is neither a digit nor a dot
SuffixSet ==
    { <<>>, <<"-", "6", "-", "a", "m", "d", "6", "4">>, <<"_", "1">>,
      <<"-", "1", ".", "2">> }

VersionParts == [comps : SeqsOf(CompSet, 1, MaxComps), suffix : SuffixSet]

VersionText(p) == Join(p.comps, <<".">>) \o p.suffix

\* tokens of a sem line: plain, zero-padded, u64::MAX, u64::MAX + 1,
\* signed with '+', not a number
TokenSet ==
    { <<"7">>, <<"0", "0", "7">>,
      <<"1", "8", "4", "4", "6", "7", "4", "4", "0", "7",
        "3", "7", "0", "9", "5", "5", "1", "6", "1", "5">>,
      <<"1", "8", "4", "4", "6", "7", "4", "4", "0", "7",
        "3", "7", "0", "9", "5", "5", "1", "6", "1", "6">>,
      <<"+", "5">>, <<"x">> }

\* the whitespace before the first token, between tokens and after the last
Layouts ==
    { [lead |-> <<>>, sep |-> <<" ">>, trail |-> <<>>],
      [lead |-> <<>>, sep |-> <<"\t">>, trail |-> <<"\n">>],
      [lead |-> <<" ", "\t">>, sep |-> <<"\t", " ", " ">>, trail |-> <<" ">>] }

SemParts == [toks : SeqsOf(TokenSet, 0, MaxTokens), layout : Layouts]

SemText(p) == p.layout.lead \o Join(p.toks, p.layout.sep) \o p.layout.trail

\* the u8 values of the fields of the versions that are compared
OrdFields == {0, 1, 255}

Versions == {Version_new(a, b, c) : a, b, c \in OrdFields}

NoVersion == Version_new(0, 0, 0)

NoParts == [none |-> TRUE]

(************************** specifications *********************************)

\* a kernel release text, about to be parsed
InitVersion ==
    /\ pc = "call"
    /\ fn = "none"
    /\ parts \in VersionParts
    /\ s = VersionText(parts)
    /\ self = NoVersion /\ other = NoVersion /\ third = NoVersion
    /\ res = NoResult

\* Version::from_str(s)
Call_Version_from_str ==
    /\ pc = "call"
    /\ pc' = "done"
    /\ fn' = "Version::from_str"
    /\ res' = Version_from_str(s)
    /\ UNCHANGED <<s, parts, self, other, third>>

NextVersion == Call_Version_from_str

SpecVersion == InitVersion /\ [][NextVersion]_vars

\* the text of /proc/sys/kernel/sem, about to be parsed
InitSem ==
    /\ pc = "call"
    /\ fn = "none"
    /\ parts \in SemParts
    /\ s = SemText(parts)
    /\ self = NoVersion /\ other = NoVersion /\ third = NoVersion
    /\ res = NoResult

\* SemaphoreLimits::from_str(s)
Call_SemaphoreLimits_from_str ==
    /\ pc = "call"
    /\ pc' = "done"
    /\ fn' = "SemaphoreLimits::from_str"
    /\ res' = SemaphoreLimits_from_str(s)
    /\ UNCHANGED <<s, parts, self, other, third>>

NextSem == Call_SemaphoreLimits_from_str

SpecSem == InitSem /\ [][NextSem]_vars

\* three versions, about to be compared
InitOrd ==
    /\ pc = "call"
    /\ fn = "none"
    /\ parts = NoParts
    /\ s = <<>>
    /\ self \in Versions /\ other \in Versions /\ third \in Versions
    /\ res = NoResult

\* self.cmp(&other)
Call_cmp ==
    /\ pc = "call"
    /\ pc' = "done"
    /\ fn' = "cmp"
    /\ res' = Ok(cmp(self, other))
    /\ UNCHANGED <<s, parts, self, other, third>>

\* self.partial_cmp(&other)
Call_partial_cmp ==
    /\ pc = "call"
    /\ pc' = "done"
    /\ fn' = "partial_cmp"
    /\ res' = Ok(partial_cmp(self, other))
    /\ UNCHANGED <<s, parts, self, other, third>>

\* self == other
Call_eq ==
    /\ pc = "call"
    /\ pc' = "done"
    /\ fn' = "eq"
    /\ res' = Ok(eq(self, other))
    /\ UNCHANGED <<s, parts, self, other, third>>

NextOrd == Call_cmp \/ Call_partial_cmp \/ Call_eq

SpecOrd == InitOrd /\ [][NextOrd]_vars

(************************* reference notions *******************************)

DigitChar(d) ==
    CASE d = 0 -> "0" [] d = 1 -> "1" [] d = 2 -> "2" [] d = 3 -> "3"
      [] d = 4 -> "4" [] d = 5 -> "5" [] d = 6 -> "6" [] d = 7 -> "7"
      [] d = 8 -> "8" [] d = 9 -> "9"

RECURSIVE ToDecimal(_)
\* the decimal text of a natural number, as u8::to_string writes it
ToDecimal(n) ==
    IF n < 10 THEN <<DigitChar(n)>>
    ELSE ToDecimal(n \div 10) \o <<DigitChar(n % 10)>>

\* a non-empty text of ASCII digits only
IsNumeral(txt) == txt # <<>> /\ \A i \in 1..Len(txt) : txt[i] \in AsciiDigits

\* the digits of a numeral, as numbers
DigitsOf(txt) == [i \in 1..Len(txt) |-> CHOOSE d \in 0..9 : DigitChar(d) = txt[i]]

RECURSIVE StripZeros(_)
\* a digit sequence without its leading zeros (zero is <<0>>)
StripZeros(ds) ==
    IF Len(ds) > 1 /\ ds[1] = 0 THEN StripZeros(Tail(ds)) ELSE ds

\* a <= b for digit sequences without leading zeros
DigitsLeq(a, b) ==
    \/ Len(a) < Len(b)
    \/ /\ Len(a) = Len(b)
       /\ \A i \in 1..Len(a) :
              (\A j \in 1..(i - 1) : a[j] = b[j]) => a[i] <= b[i]

RECURSIVE SmallValueFrom(_, _)
SmallValueFrom(ds, acc) ==
    IF ds = <<>> THEN acc
    ELSE LET n == acc * 10 + Head(ds)
         IN  SmallValueFrom(Tail(ds), IF n > 1000 THEN 1000 ELSE n)

\* the value of a numeral, or 1000 when it is larger than that
SmallValue(txt) == SmallValueFrom(DigitsOf(txt), 0)

\* a component that denotes a u8: a numeral with value in 0..255
IsU8Numeral(txt) == IsNumeral(txt) /\ SmallValue(txt) <= 255

\* a token that is a decimal numeral with value in the u64 range
IsU64Numeral(txt) ==
    IsNumeral(txt) /\ DigitsLeq(StripZeros(DigitsOf(txt)), U64_MAX)

\* a token that is an optional '+' followed by a numeral in the u64 range
IsSignedU64Numeral(txt) ==
    \/ IsU64Numeral(txt)
    \/ txt # <<>> /\ txt[1] = "+" /\ IsU64Numeral(Tail(txt))

\* the u64 a token of that form denotes
U64Value(txt) ==
    StripZeros(DigitsOf(IF txt[1] = "+" THEN Tail(txt) ELSE txt))

\* the decimal text of a u64, as u64::to_string writes it
U64ToString(v) == [i \in 1..Len(v) |-> DigitChar(v[i])]

MissingField(k) ==
    CASE k = 1 -> "Missing SEMMSL" [] k = 2 -> "Missing SEMMNS"
      [] k = 3 -> "Missing SEMOPM" [] k = 4 -> "Missing SEMMNI"

FailedField(k) ==
    CASE k = 1 -> "Failed to parse SEMMSL" [] k = 2 -> "Failed to parse SEMMNS"
      [] k = 3 -> "Failed to parse SEMOPM" [] k = 4 -> "Failed to parse SEMMNI"

FailedComponent(k) ==
    CASE k = 1 -> "Failed to parse major version"
      [] k = 2 -> "Failed to parse minor version"
      [] k = 3 -> "Failed to parse patch version"

\* the least element of a non-empty set of numbers
Least(S) == CHOOSE k \in S : \A j \in S : k <= j

IsErrWith(r, msg) == IsErr(r) /\ r.val = msg

IsOkWith(r, v) == IsOk(r) /\ r.val = v

SameResult(r1, r2) == r1.tag = r2.tag /\ r1.val = r2.val

VersionDone == pc = "done" /\ fn = "Version::from_str"

SemDone == pc = "done" /\ fn = "SemaphoreLimits::from_str"

(******************************* claims ************************************)

\* C1: the text "a.b.c" for a, b, c in 0..255, followed by nothing or by a
\* suffix that starts with a char that is neither a digit nor '.', parses to
\* Ok(Version{a, b, c}).
C1_SuffixIgnored ==
    (VersionDone /\ Len(parts.comps) = 3) =>
        \A a \in 0..U8MAX : parts.comps[1] = ToDecimal(a) =>
        \A b \in 0..U8MAX : parts.comps[2] = ToDecimal(b) =>
        \A c \in 0..U8MAX : parts.comps[3] = ToDecimal(c) =>
            /\ s = ToDecimal(a) \o <<".">> \o ToDecimal(b) \o <<".">>
                     \o ToDecimal(c) \o parts.suffix
            /\ IsOkWith(res, Version_new(a, b, c))

C1_Witness ==
    /\ VersionDone
    /\ s = <<"3", ".", "1", "6", ".", "0", "-", "6", "-", "a", "m", "d", "6", "4">>
    /\ IsOkWith(res, Version_new(3, 16, 0))

\* C2: cmp is the lexicographic order over (major, minor, patch): it is Equal
\* exactly when the three fields are equal, exactly one of <, ==, > holds,
\* < is transitive, and partial_cmp is Some(cmp).
C2_Less(x, y) ==
    \/ x.major < y.major
    \/ x.major = y.major /\ x.minor < y.minor
    \/ x.major = y.major /\ x.minor = y.minor /\ x.patch < y.patch

C2_TotalOrder ==
    pc = "done" =>
        LET lt == partial_cmp(self, other) = Some("Less")
            gt == partial_cmp(self, other) = Some("Greater")
            same == eq(self, other)
        IN  /\ fn = "cmp" =>
                /\ res.val = "Less" <=> C2_Less(self, other)
                /\ res.val = "Greater" <=> C2_Less(other, self)
                /\ res.val = "Equal" <=> self = other
                /\ res.val \in {"Less", "Equal", "Greater"}
            /\ fn = "partial_cmp" =>
                /\ res.val.some
                /\ res.val.v = cmp(self, other)
            /\ fn = "eq" => (res.val <=> self = other)
            /\ Cardinality({b \in {<<1, lt>>, <<2, same>>, <<3, gt>>} : b[2]}) = 1
            /\ (cmp(self, other) = "Less" /\ cmp(other, third) = "Less")
                   => cmp(self, third) = "Less"

C2_Witness ==
    /\ pc = "done" /\ fn = "cmp"
    /\ self = Version_new(1, 255, 255) /\ other = Version_new(255, 0, 0)
    /\ third = Version_new(255, 0, 1)
    /\ res.val = "Less"
    /\ cmp(other, third) = "Less"

\* the canonical decimal texts among the first four tokens
C3_Canonical(toks) ==
    \A k \in 1..4 :
        /\ IsU64Numeral(toks[k])
        /\ U64ToString(U64Value(toks[k])) = toks[k]

\* C3: four decimal texts of u64 values, separated by runs of ASCII
\* whitespace and with any leading and trailing whitespace, parse to Ok with
\* semmsl, semmns, semopm, semmni in that order.
C3_FourFields ==
    (SemDone /\ Len(parts.toks) = 4 /\ C3_Canonical(parts.toks)) =>
        IsOkWith(res, [semmsl |-> U64Value(parts.toks[1]),
                       semmns |-> U64Value(parts.toks[2]),
                       semopm |-> U64Value(parts.toks[3]),
                       semmni |-> U64Value(parts.toks[4])])

C3_Witness ==
    /\ SemDone
    /\ Len(parts.toks) = 4 /\ C3_Canonical(parts.toks)
    /\ parts.layout.sep = <<"\t", " ", " ">>
    /\ parts.layout.lead # <<>> /\ parts.layout.trail # <<>>
    /\ IsOk(res)
    /\ res.val.semmsl = <<7>>
    /\ res.val.semmns = U64_MAX
    /\ res.val.semopm = <<7>>
    /\ res.val.semmni = U64_MAX

\* C4: an input of n tokens, 0 <= n <= 3, fails with the missing-field error
\* of position n + 1.
C4_MissingField ==
    (SemDone /\ Len(parts.toks) <= 3) =>
        IsErrWith(res, MissingField(Len(parts.toks) + 1))

C4_Witness ==
    /\ SemDone
    /\ parts.toks = << <<"7">> >>
    /\ IsErrWith(res, "Missing SEMMNS")

\* the positions among the first four whose token is not a numeral in range
C5_NotNumeral(toks) == {k \in 1..4 : ~ IsU64Numeral(toks[k])}

\* C5 as stated: with at least four tokens of which one of the first four is
\* not a decimal numeral in the u64 range, the parse fails with the
\* failed-to-parse error of the first such position.
C5_Original ==
    (SemDone /\ Len(parts.toks) >= 4 /\ C5_NotNumeral(parts.toks) # {}) =>
        IsErrWith(res, FailedField(Least(C5_NotNumeral(parts.toks))))

\* the positions among the first four whose token is not an optional '+'
\* followed by a numeral in range
C5_Malformed(toks) == {k \in 1..4 : ~ IsSignedU64Numeral(toks[k])}

\* C5, amended: with at least four tokens of which one of the first four is
\* not an optional '+' followed by a decimal numeral in the u64 range, the
\* parse fails with the failed-to-parse error of the first such position.
C5_FailedField ==
    (SemDone /\ Len(parts.toks) >= 4 /\ C5_Malformed(parts.toks) # {}) =>
        IsErrWith(res, FailedField(Least(C5_Malformed(parts.toks))))

C5_Witness ==
    /\ SemDone
    /\ parts.toks = << <<"7">>, <<"x">>, <<"+", "5">>, <<"0", "0", "7">> >>
    /\ IsErrWith(res, "Failed to parse SEMMNS")

\* the positions 1..4 that are missing or hold a malformed token
C6_Bad(toks) ==
    {k \in 1..4 : k > Len(toks) \/ ~ IsSignedU64Numeral(toks[k])}

\* C6 as stated: a failure names the lowest position that is missing or
\* malformed.
C6_Original ==
    (SemDone /\ IsErr(res)) =>
        /\ C6_Bad(parts.toks) # {}
        /\ LET k == Least(C6_Bad(parts.toks))
           IN  res.val = IF k > Len(parts.toks) THEN MissingField(k)
                         ELSE FailedField(k)

\* C6, amended: a failure names the lowest missing position when fewer than
\* four tokens are present, even if an earlier token is malformed, and
\* otherwise the lowest position among the first four that is malformed.
C6_MissingBeforeMalformed ==
    (SemDone /\ IsErr(res)) =>
        /\ C6_Bad(parts.toks) # {}
        /\ LET n == Len(parts.toks)
               k == Least(C6_Bad(parts.toks))
           IN  res.val = IF n < 4 THEN MissingField(n + 1) ELSE FailedField(k)

C6_Witness ==
    /\ SemDone
    /\ parts.toks = << <<"x">>, <<"7">> >>
    /\ IsErrWith(res, "Missing SEMOPM")

\* C7: when the first three components are valid, the result is the version
\* they denote, whatever components follow the third.
C7_FirstThreeOnly ==
    (/\ VersionDone
     /\ Len(parts.comps) >= 3
     /\ \A k \in 1..3 : IsU8Numeral(parts.comps[k])) =>
        IsOkWith(res, Version_new(SmallValue(parts.comps[1]),
                                  SmallValue(parts.comps[2]),
                                  SmallValue(parts.comps[3])))

C7_Witness ==
    /\ VersionDone
    /\ parts.comps = << <<"3">>, <<"1", "6">>, <<"0">>, <<"2", "5", "6">> >>
    /\ IsOkWith(res, Version_new(3, 16, 0))

\* the positions among the first three whose component is empty or past 255
C8_Invalid(comps) == {k \in 1..3 : ~ IsU8Numeral(comps[k])}

\* C8: with at least three components, the parse succeeds exactly when each
\* of the first three is a numeral with value in 0..255, and otherwise fails
\* with the failed-to-parse error of the first that is not.
C8_RangeChecked ==
    (VersionDone /\ Len(parts.comps) >= 3) =>
        /\ IsOk(res) <=> C8_Invalid(parts.comps) = {}
        /\ C8_Invalid(parts.comps) # {} =>
               IsErrWith(res, FailedComponent(Least(C8_Invalid(parts.comps))))

C8_Witness ==
    /\ VersionDone
    /\ parts.comps = << <<"2", "5", "6">>, <<>>, <<"0">> >>
    /\ IsErrWith(res, "Failed to parse major version")

\* C9: no input fails with the missing-major error; the empty input and an
\* input whose first char is neither a digit nor '.' fail with the
\* missing-minor error.
C9_NeverMissingMajor ==
    VersionDone =>
        /\ ~ IsErrWith(res, "Missing major version component")
        /\ (s = <<>> \/ (s # <<>> /\ s[1] \notin AsciiDigits \cup {"."})) =>
               IsErrWith(res, "Missing minor version component")
        /\ Len(parts.comps) = 2 =>
               IsErrWith(res, "Missing patch version component")

C9_Witness ==
    /\ VersionDone
    /\ s = <<>>
    /\ IsErrWith(res, "Missing minor version component")

\* C10: with more than four tokens the result is the result for the first
\* four tokens alone.
C10_SurplusIgnored ==
    (SemDone /\ Len(parts.toks) > 4) =>
        SameResult(res,
            SemaphoreLimits_from_str(
                SemText([parts EXCEPT !.toks = SubSeq(parts.toks, 1, 4)])))

C10_Witness ==
    /\ SemDone
    /\ parts.toks = << <<"7">>, <<"7">>, <<"7">>, <<"7">>, <<"x">> >>
    /\ IsOk(res)
    /\ res.val.semmni = <<7>>

====
